---- MODULE Spec2Model ----
(***************************************************************************)
(* A model of server.py: the bar catalogue held in the module-level data   *)
(* frame bars_df with the /closest_bars and /all_bars handlers, and the    *)
(* participants table with the /save_participants and /get_participants    *)
(* handlers.                                                               *)
(*                                                                         *)
(* Numbers.  A Python float is a record [fin, v]: NaN, or a finite value.  *)
(* Bars and query points lie on one meridian; a latitude is a position on  *)
(* it and a geodesic distance is a whole number of half metres, so that    *)
(* round() has ties to settle.                                             *)
(*                                                                         *)
(* Libraries.  server.py pins no versions, so the two behaviours of its    *)
(* libraries that the handlers depend on are fixed at start-up and not     *)
(* chosen by the model:                                                    *)
(*   geopyStrict   geopy >= 2.0 raises ValueError for a non-finite         *)
(*                 coordinate; geopy 1.x warns and yields a NaN distance.  *)
(*   emptyReduces  DataFrame.apply(f, axis=1) on a frame without rows      *)
(*                 probes f and gives an empty Series when the probe       *)
(*                 returns a scalar; when the probe raises it gives a copy *)
(*                 of the frame.  With a strict geopy the probe raises.    *)
(* DataFrame.sort_values keeps its default kind="quicksort", which is not  *)
(* a stable sort: rows of equal key come out in any order.                 *)
(***************************************************************************)
EXTENDS Integers, Sequences, FiniteSets, Bags, TLC

VARIABLES
    bars_df,       \* the module-level data frame: columns, rows, distance column
    loaded,        \* whether pd.read_excel succeeded (line 17) or the fallback ran
    loaded_df,     \* the frame as it was right after the load (never written)
    geopyStrict,   \* library behaviour, see above
    emptyReduces,  \* library behaviour, see above
    req,           \* the /closest_bars and /all_bars request of each worker thread
    participants,  \* committed rows of the participants table
    sreq,          \* the /save_participants request of each worker thread
    reply,         \* the response just sent by a table handler, if any
    saved,         \* per session: the list of the last committed save
    nsaved,        \* per session: how many saves have committed
    nreq           \* save requests received so far; the database's clock

barsVars == <<bars_df, loaded, loaded_df, geopyStrict, emptyReduces, req>>
storeVars == <<participants, sreq, reply, saved, nsaved, nreq>>
vars == <<barsVars, storeVars>>

-----------------------------------------------------------------------------
(* Bounds *)

MaxBars == 4
MaxSharedBars == 3
MaxThreads == 2
MaxParts == 2
MaxSaves == 3
MaxSharedSaves == 2

-----------------------------------------------------------------------------
(* Python floats *)

NaN == [fin |-> FALSE, v |-> 0]
F(n) == [fin |-> TRUE, v |-> n]
Abs(n) == IF n < 0 THEN -n ELSE n
Min(a, b) == IF a < b THEN a ELSE b

\* float(x) of lines 148-149 on a JSON value (or None for an absent key).
\* None raises TypeError, a non-numeric string raises ValueError; a
\* number, a numeric string and the string "nan" all convert.
RawNone == [k |-> "none", v |-> 0]
RawText == [k |-> "text", v |-> 0]
RawNanStr == [k |-> "nanstr", v |-> 0]
RawNum(n) == [k |-> "num", v |-> n]
RawNumStr(n) == [k |-> "numstr", v |-> n]

float(x) ==
    CASE x.k = "none" -> [raised |-> TRUE, val |-> NaN]
      [] x.k = "text" -> [raised |-> TRUE, val |-> NaN]
      [] x.k = "nanstr" -> [raised |-> FALSE, val |-> NaN]
      [] OTHER -> [raised |-> FALSE, val |-> F(x.v)]

\* round(x) of line 169 on a finite distance in half metres: to the
\* nearest metre, a tie going to the even metre.
round(d) ==
    LET q == d \div 2
    IN  IF d % 2 = 0 THEN q
        ELSE IF q % 2 = 0 THEN q ELSE q + 1

-----------------------------------------------------------------------------
(* The catalogue: bars_df, lines 15-22 *)

TopK == 3

LoadColumns == {"Nom", "Adresse", "Prix", "latitude", "longitude", "Happy Hour"}

\* Latitudes a cell of bars.xlsx can hold: two positions on the meridian,
\* or NaN for an empty or unreadable cell.
BarLats == {F(0), F(3), NaN}

\* A sheet of n rows; Nom is the row's position in the sheet.
Sheets(n) ==
    { [i \in 1..n |-> [Nom |-> i, latitude |-> lats[i], longitude |-> F(0)]] :
        lats \in [1..n -> BarLats] }

SheetsUpTo(n) == UNION { Sheets(m) : m \in 0..n }

Frame(rows) == [columns |-> LoadColumns, rows |-> rows, distance |-> <<>>]

Threads == 1..MaxThreads

Idle ==
    [pc |-> "idle", op |-> "none", lat_in |-> RawNone, lon_in |-> RawNone,
     lat |-> NaN, lon |-> NaN, indexer |-> <<>>, status |-> 0,
     bars |-> <<>>, all |-> <<>>]

\* Lines 16-22: the sheet is read, or the fallback makes a frame without rows.
InitFrame(sheets) ==
    /\ \E ok \in BOOLEAN :
         /\ loaded = ok
         /\ \E rows \in (IF ok THEN sheets ELSE {<<>>}) : bars_df = Frame(rows)
    /\ loaded_df = bars_df
    /\ geopyStrict \in BOOLEAN
    /\ emptyReduces \in BOOLEAN
    /\ emptyReduces => ~geopyStrict
    /\ req = [t \in Threads |-> Idle]

-----------------------------------------------------------------------------
(* /closest_bars, lines 144-174 *)

\* The JSON bodies a request can carry, as the values of "lat" and "lon".
Bodies ==
    { <<RawNone, RawNum(0)>>, <<RawText, RawNum(0)>>, <<RawNum(1), RawNone>>,
      <<RawNanStr, RawNum(0)>>, <<RawNum(1), RawNum(0)>>, <<RawNumStr(2), RawNum(0)>> }

\* geodesic(a, b).meters of line 155, in half metres along the meridian.
geodesic(alat, alon, blat, blon) ==
    IF alat.fin /\ alon.fin /\ blat.fin /\ blon.fin
    THEN [raised |-> FALSE, m |-> F(Abs(alat.v - blat.v) + Abs(alon.v - blon.v))]
    ELSE [raised |-> geopyStrict, m |-> NaN]

\* Lines 154-155.
compute_distance(lat, lon, row) ==
    geodesic(lat, lon, row.latitude, row.longitude)

\* bars_df.apply(compute_distance, axis=1) of line 157: a Series of one
\* distance per row, the exception of the first row that raises, or, for
\* a frame without rows, an empty Series or a copy of the frame.
apply(df, lat, lon) ==
    LET n == Len(df.rows)
        d == [i \in 1..n |-> compute_distance(lat, lon, df.rows[i])]
    IN  IF n = 0
        THEN [kind |-> IF emptyReduces THEN "series" ELSE "frame", s |-> <<>>]
        ELSE IF \E i \in 1..n : d[i].raised
             THEN [kind |-> "raised", s |-> <<>>]
             ELSE [kind |-> "series", s |-> [i \in 1..n |-> d[i].m]]

\* bars_df["distance"] = value of line 157: the column is added on the
\* first assignment and overwritten on every later one.
set_distance(df, s) ==
    [df EXCEPT !.columns = @ \cup {"distance"}, !.distance = s]

\* The order of two sort keys: NaN sorts last (na_position="last").
KeyLeq(a, b) == IF a.fin /\ b.fin THEN a.v <= b.v ELSE ~b.fin

Perms(n) == { p \in [1..n -> 1..n] : \A i, j \in 1..n : i # j => p[i] # p[j] }

\* The indexers sort_values("distance") of line 158 can compute from a
\* column: every arrangement of the rows in ascending key order.
sort_values(col) ==
    { p \in Perms(Len(col)) :
        \A i, j \in 1..Len(col) : i < j => KeyLeq(col[p[i]], col[p[j]]) }

\* .head(3) of line 158 on the frame taken with an indexer: the rows and
\* the distance column as they are when the rows are taken.
head(df, indexer) ==
    [i \in 1..Min(TopK, Len(indexer)) |->
        [row |-> df.rows[indexer[i]], distance |-> df.distance[indexer[i]]]]

\* Lines 160-170.
results(closest) ==
    [i \in 1..Len(closest) |->
        [nom |-> closest[i].row.Nom,
         latitude |-> closest[i].row.latitude,
         longitude |-> closest[i].row.longitude,
         distance_m |-> round(closest[i].distance.v)]]

Respond(r, status) == [r EXCEPT !.pc = "done", !.status = status, !.indexer = <<>>]

\* Lines 146-151: the body is read and both coordinates go through float().
ClosestStart(t, lat_in, lon_in) ==
    /\ req[t].pc = "idle"
    /\ LET la == float(lat_in)
           lo == float(lon_in)
           r == [Idle EXCEPT !.op = "closest", !.lat_in = lat_in, !.lon_in = lon_in]
       IN  req' = [req EXCEPT ![t] =
                IF la.raised \/ lo.raised
                THEN Respond(r, 400)
                ELSE [r EXCEPT !.pc = "apply", !.lat = la.val, !.lon = lo.val]]
    /\ UNCHANGED <<bars_df, loaded, loaded_df, geopyStrict, emptyReduces, storeVars>>

\* Line 157: the distances are computed and stored in the shared frame.
\* An exception leaves the frame as it was and ends the request at line 174.
ClosestAssign(t) ==
    /\ req[t].pc = "apply"
    /\ LET a == apply(bars_df, req[t].lat, req[t].lon)
       IN  IF a.kind = "series"
           THEN /\ bars_df' = set_distance(bars_df, a.s)
                /\ req' = [req EXCEPT ![t].pc = "sort"]
           ELSE /\ bars_df' = bars_df
                /\ req' = [req EXCEPT ![t] = Respond(@, 500)]
    /\ UNCHANGED <<loaded, loaded_df, geopyStrict, emptyReduces, storeVars>>

\* Line 158, first half: sort_values reads the shared distance column and
\* computes the indexer.
ClosestSort(t) ==
    /\ req[t].pc = "sort"
    /\ \E p \in sort_values(bars_df.distance) :
         req' = [req EXCEPT ![t].pc = "take", ![t].indexer = p]
    /\ UNCHANGED <<bars_df, loaded, loaded_df, geopyStrict, emptyReduces, storeVars>>

\* Line 158, second half, to line 174: the rows are taken from the shared
\* frame with the indexer, cut to three and formatted; round() of a NaN
\* distance raises ValueError.
ClosestTake(t) ==
    /\ req[t].pc = "take"
    /\ LET closest == head(bars_df, req[t].indexer)
       IN  req' = [req EXCEPT ![t] =
                IF \E i \in 1..Len(closest) : ~closest[i].distance.fin
                THEN Respond(@, 500)
                ELSE Respond([@ EXCEPT !.bars = results(closest)], 200)]
    /\ UNCHANGED <<bars_df, loaded, loaded_df, geopyStrict, emptyReduces, storeVars>>

\* /all_bars, lines 176-191.
all_bars(df) ==
    [i \in 1..Len(df.rows) |->
        [nom |-> df.rows[i].Nom,
         latitude |-> df.rows[i].latitude,
         longitude |-> df.rows[i].longitude]]

AllBars(t) ==
    /\ req[t].pc = "idle"
    /\ req' = [req EXCEPT ![t] =
            Respond([Idle EXCEPT !.op = "all", !.all = all_bars(bars_df)], 200)]
    /\ UNCHANGED <<bars_df, loaded, loaded_df, geopyStrict, emptyReduces, storeVars>>

\* The response is sent and the thread takes its next request.
Finish(t) ==
    /\ req[t].pc = "done"
    /\ req' = [req EXCEPT ![t] = Idle]
    /\ UNCHANGED <<bars_df, loaded, loaded_df, geopyStrict, emptyReduces, storeVars>>

-----------------------------------------------------------------------------
(* The participants table, lines 44-65, and its two handlers *)

\* Session ids a request can carry; NULL is an absent sessionId (None).
Sessions == {"s1", "s2", "NULL"}

\* Participants a request can carry.  The name "long" stands for a name
\* of more than 255 characters, which VARCHAR(255) rejects on INSERT.
People ==
    { [name |-> "a", address |-> "x"],
      [name |-> "b", address |-> "y"],
      [name |-> "long", address |-> "x"] }

Lists == UNION { [1..n -> People] : n \in 0..MaxParts }

SIdle ==
    [pc |-> "idle", sid |-> "NULL", list |-> <<>>, began |-> 0,
     scanned |-> {}, deleted |-> {}, inserted |-> {}, k |-> 0]

NoReply == [op |-> "none", sid |-> "NULL", status |-> 0, rows |-> EmptyBag]

\* init_db, lines 44-65: the table exists and is empty.
InitStore ==
    /\ participants = {}
    /\ sreq = [t \in Threads |-> SIdle]
    /\ reply = NoReply
    /\ saved = [s \in Sessions |-> <<>>]
    /\ nsaved = [s \in Sessions |-> 0]
    /\ nreq = 0

\* The (name, address) pairs of a set of rows, with their multiplicities.
NameAddress(r) == [name |-> r.name, address |-> r.address]

BagOfRows(rows) ==
    [e \in { NameAddress(r) : r \in rows } |->
        Cardinality({ r \in rows : NameAddress(r) = e })]

BagOfList(list) ==
    [e \in { list[i] : i \in 1..Len(list) } |->
        Cardinality({ i \in 1..Len(list) : list[i] = e })]

\* WHERE session_id = %s: a comparison with NULL is never true.
Matches(row, sid) == sid # "NULL" /\ row.session_id = sid

\* Whether a save transaction is open on a thread.
InTx(r) == r.pc \in {"delete", "lock", "insert"}

\* The response of a save request.
SaveReply(sid, status) == [NoReply EXCEPT !.op = "save", !.sid = sid, !.status = status]

\* Whether the INSERT of lines 214-217 raises: session_id is NOT NULL and
\* name is VARCHAR(255).
insert_raises(sid, p) == sid = "NULL" \/ p.name = "long"

\* Lines 196-200: a body that is absent or an empty object is refused.
SaveEmpty(t) ==
    /\ sreq[t].pc = "idle"
    /\ nreq < MaxSaves
    /\ nreq' = nreq + 1
    /\ reply' = SaveReply("NULL", 400)
    /\ UNCHANGED <<participants, sreq, saved, nsaved, barsVars>>

\* Lines 202-208: the request is read and a connection opened; psycopg2
\* begins the transaction with the first statement.  get_connection may
\* raise, which ends the request at line 230.
SaveStart(t, sid, list) ==
    /\ sreq[t].pc = "idle"
    /\ nreq < MaxSaves
    /\ nreq' = nreq + 1
    /\ \E connected \in BOOLEAN :
         IF connected
         THEN /\ sreq' = [sreq EXCEPT ![t] =
                    [SIdle EXCEPT !.pc = "delete", !.sid = sid, !.list = list,
                                  !.began = nreq + 1]]
              /\ reply' = NoReply
         ELSE /\ sreq' = sreq
              /\ reply' = SaveReply(sid, 500)
    /\ UNCHANGED <<participants, saved, nsaved, barsVars>>

delete_scan_none(rows, sid) == {}

\* Line 210, the statement starts: under READ COMMITTED the DELETE sees
\* the rows committed at this instant.
delete_scan(rows, sid) == { r.id : r \in { x \in rows : Matches(x, sid) } }

SaveScan(t) ==
    /\ sreq[t].pc = "delete"
    /\ sreq' = [sreq EXCEPT ![t].pc = "lock",
                            ![t].scanned = delete_scan(participants, sreq[t].sid)]
    /\ reply' = NoReply
    /\ UNCHANGED <<participants, saved, nsaved, nreq, barsVars>>

\* Line 210, the statement completes: it waits for every transaction that
\* holds a lock on a row it scanned, and deletes the scanned rows that
\* are still there.
SaveDelete(t) ==
    /\ sreq[t].pc = "lock"
    /\ \A u \in Threads \ {t} :
         InTx(sreq[u]) => sreq[u].deleted \cap sreq[t].scanned = {}
    /\ sreq' = [sreq EXCEPT ![t].pc = "insert",
                            ![t].deleted =
                                sreq[t].scanned \cap { r.id : r \in participants }]
    /\ reply' = NoReply
    /\ UNCHANGED <<participants, saved, nsaved, nreq, barsVars>>

\* The row an INSERT of lines 214-217 adds.  created_at defaults to
\* CURRENT_TIMESTAMP, the time the transaction began; the SERIAL id is
\* the pair of the transaction and the row's place in it, which is
\* unique as the sequence's numbers are.  The field of is no column: it
\* records how many participants the row's request carried.
new_row(r, p) ==
    [id |-> <<r.began, r.k + 1>>, session_id |-> r.sid,
     name |-> p.name, address |-> p.address, created_at |-> r.began,
     of |-> Len(r.list)]

\* Lines 213-218, one turn of the loop.  An INSERT that raises ends the
\* request at line 230; the connection is dropped without a commit and
\* the server rolls the transaction back.
SaveInsert(t) ==
    /\ sreq[t].pc = "insert"
    /\ sreq[t].k < Len(sreq[t].list)
    /\ LET p == sreq[t].list[sreq[t].k + 1]
       IN  IF insert_raises(sreq[t].sid, p)
           THEN /\ sreq' = [sreq EXCEPT ![t] = SIdle]
                /\ reply' = SaveReply(sreq[t].sid, 500)
           ELSE /\ sreq' = [sreq EXCEPT ![t].k = @ + 1,
                                        ![t].inserted = @ \cup {new_row(sreq[t], p)}]
                /\ reply' = NoReply
    /\ UNCHANGED <<participants, saved, nsaved, nreq, barsVars>>

\* The table after a transaction's COMMIT of line 220.
commit(rows, deleted, inserted) ==
    { r \in rows : r.id \notin deleted } \cup inserted

\* Lines 220-225.
SaveCommit(t) ==
    /\ sreq[t].pc = "insert"
    /\ sreq[t].k = Len(sreq[t].list)
    /\ participants' = commit(participants, sreq[t].deleted, sreq[t].inserted)
    /\ saved' = [saved EXCEPT ![sreq[t].sid] = sreq[t].list]
    /\ nsaved' = [nsaved EXCEPT ![sreq[t].sid] = @ + 1]
    /\ sreq' = [sreq EXCEPT ![t] = SIdle]
    /\ reply' = SaveReply(sreq[t].sid, 200)
    /\ UNCHANGED <<nreq, barsVars>>

\* SELECT name, address FROM participants WHERE session_id = %s, line 240.
select(rows, sid) == BagOfRows({ r \in rows : Matches(r, sid) })

\* /get_participants, lines 232-251: one statement on a connection of its
\* own, which sees the rows committed at this instant.
GetParticipants(t, sid) ==
    /\ sreq[t].pc = "idle"
    /\ \E connected \in BOOLEAN :
         reply' = IF connected
                  THEN [op |-> "get", sid |-> sid, status |-> 200,
                        rows |-> select(participants, sid)]
                  ELSE [NoReply EXCEPT !.op = "get", !.sid = sid, !.status = 500]
    /\ UNCHANGED <<participants, sreq, saved, nsaved, nreq, barsVars>>

-----------------------------------------------------------------------------
(* Specifications.  The catalogue handlers and the table handlers share   *)
(* no state, so each is checked with the other at rest.                   *)

\* One worker thread: a request starts when the one before has been answered.
NextBars ==
    \/ \E body \in Bodies : ClosestStart(1, body[1], body[2])
    \/ ClosestAssign(1)
    \/ ClosestSort(1)
    \/ ClosestTake(1)
    \/ AllBars(1)
    \/ Finish(1)

\* Worker threads that share bars_df, each between two lines of its handler.
NextThreads ==
    \/ \E t \in Threads, body \in Bodies : ClosestStart(t, body[1], body[2])
    \/ \E t \in Threads : ClosestAssign(t)
    \/ \E t \in Threads : ClosestSort(t)
    \/ \E t \in Threads : ClosestTake(t)
    \/ \E t \in Threads : AllBars(t)
    \/ \E t \in Threads : Finish(t)

\* Whether no save transaction is open.
NoSaveOpen == \A u \in Threads : ~InTx(sreq[u])

\* Clients whose saves do not overlap: a save is sent when no other is
\* open.  Reads come at any time.
NextStore ==
    \/ \E t \in Threads : SaveEmpty(t)
    \/ \E t \in Threads, sid \in Sessions, list \in Lists :
         NoSaveOpen /\ SaveStart(t, sid, list)
    \/ \E t \in Threads : SaveScan(t)
    \/ \E t \in Threads : SaveDelete(t)
    \/ \E t \in Threads : SaveInsert(t)
    \/ \E t \in Threads : SaveCommit(t)
    \/ \E t \in Threads, sid \in Sessions : GetParticipants(t, sid)

\* Clients that send saves at any time.
NextSaves ==
    \/ \E t \in Threads : nreq < MaxSharedSaves /\ SaveEmpty(t)
    \/ \E t \in Threads, sid \in Sessions, list \in Lists :
         nreq < MaxSharedSaves /\ SaveStart(t, sid, list)
    \/ \E t \in Threads : SaveScan(t)
    \/ \E t \in Threads : SaveDelete(t)
    \/ \E t \in Threads : SaveInsert(t)
    \/ \E t \in Threads : SaveCommit(t)
    \/ \E t \in Threads, sid \in Sessions : GetParticipants(t, sid)

\* The fallback frame of line 22, with the current libraries.
InitBarsFallback ==
    /\ loaded = FALSE
    /\ bars_df = Frame(<<>>)
    /\ loaded_df = bars_df
    /\ geopyStrict = TRUE
    /\ emptyReduces = FALSE
    /\ req = [t \in Threads |-> Idle]

\* The states after start-up: the table is empty; the sheet has been read
\* or the fallback frame made.
InitBars == InitFrame(SheetsUpTo(MaxBars)) /\ InitStore

InitThreads == InitFrame(SheetsUpTo(MaxSharedBars)) /\ InitStore

InitTable == InitBarsFallback /\ InitStore

SpecBars == InitBars /\ [][NextBars]_vars

SpecThreads == InitThreads /\ [][NextThreads]_vars

SpecStore == InitTable /\ [][NextStore]_vars

SpecSaves == InitTable /\ [][NextSaves]_vars

-----------------------------------------------------------------------------
(* Properties *)

Closest(r) == r.pc = "done" /\ r.op = "closest"

\* Whether float() gave a finite number for both coordinates.
FinitePoint(r) == r.lat.fin /\ r.lon.fin

\* Whether every row has finite coordinates.
Sound(rows) == \A i \in 1..Len(rows) : rows[i].latitude.fin /\ rows[i].longitude.fin

\* The full-precision distance from a request's own point to row i.
Own(r, i) == compute_distance(r.lat, r.lon, loaded_df.rows[i]).m

\* The rows a response names.
Returned(r) == { r.bars[i].nom : i \in 1..Len(r.bars) }

\* The responses that rank the given rows by their distance to the point
\* and keep the first three.
Ranked(rows, lat, lon) ==
    LET d == [i \in 1..Len(rows) |-> compute_distance(lat, lon, rows[i]).m]
    IN  { results(head(set_distance(Frame(rows), d), p)) : p \in sort_values(d) }

\* The outcomes of a request that runs with no other request in flight.
Alone(rows, lat_in, lon_in) ==
    LET la == float(lat_in)
        lo == float(lon_in)
        a == apply(Frame(rows), la.val, lo.val)
        df == set_distance(Frame(rows), a.s)
    IN  IF la.raised \/ lo.raised THEN {<<400, <<>>>>}
        ELSE IF a.kind # "series" THEN {<<500, <<>>>>}
        ELSE { IF \E i \in 1..Len(head(df, p)) : ~head(df, p)[i].distance.fin
               THEN <<500, <<>>>>
               ELSE <<200, results(head(df, p))>> : p \in sort_values(a.s) }

\* C1: while the closest_bars requests in flight all have finite points,
\* each of them ends with a status and a list of bars and distances that
\* it can end with when it runs alone on the catalogue.
C1_NoInterference ==
    (\A u \in Threads : req[u].op = "closest" => FinitePoint(req[u])) =>
    \A t \in Threads :
        Closest(req[t]) =>
            <<req[t].status, req[t].bars>>
                \in Alone(loaded_df.rows, req[t].lat_in, req[t].lon_in)

\* C2: the catalogue is at every moment what it was right after the load:
\* the same columns, the same rows in the same order, the same values.
C2_CatalogReadOnly == bars_df = loaded_df

\* C3: a closest_bars request whose lat or lon is absent, not a number
\* or not finite ends with status 400.
C3_InvalidCoordinatesRejected ==
    \A t \in Threads :
        (Closest(req[t])
            /\ \E x \in {req[t].lat_in, req[t].lon_in} :
                    x.k \in {"none", "text", "nanstr"})
            => req[t].status = 400

\* C4: on a catalogue of n rows with finite coordinates, a closest_bars
\* request with a finite point succeeds with min(3, n) bars in ascending
\* order of distance, and no row left out is strictly closer than a row
\* returned.
C4_TopK ==
    \A t \in Threads :
        (Closest(req[t]) /\ FinitePoint(req[t]) /\ Sound(loaded_df.rows)) =>
            /\ req[t].status = 200
            /\ Len(req[t].bars) = Min(TopK, Len(loaded_df.rows))
            /\ \A i, j \in 1..Len(req[t].bars) :
                 i < j => Own(req[t], req[t].bars[i].nom).v
                            <= Own(req[t], req[t].bars[j].nom).v
            /\ \A i \in 1..Len(loaded_df.rows), k \in Returned(req[t]) :
                 i \notin Returned(req[t]) => Own(req[t], i).v >= Own(req[t], k).v

\* C5: while the closest_bars requests in flight all have finite points,
\* the bars of a successful response are in non-decreasing order of their
\* distance to the request's point, and the distance_m reported with
\* them are non-decreasing too.
C5_OutputOrdered ==
    (\A u \in Threads : req[u].op = "closest" => FinitePoint(req[u])) =>
    \A t \in Threads :
        (Closest(req[t]) /\ req[t].status = 200) =>
            \A i, j \in 1..Len(req[t].bars) :
                i < j =>
                    /\ KeyLeq(Own(req[t], req[t].bars[i].nom),
                              Own(req[t], req[t].bars[j].nom))
                    /\ req[t].bars[i].distance_m <= req[t].bars[j].distance_m

\* C6: when the dataset could not be read, all_bars answers 200 with an
\* empty list and closest_bars with a finite point answers 200 with an
\* empty list.
C6_EmptyCatalogAvailable ==
    ~loaded =>
        \A t \in Threads :
            /\ (req[t].pc = "done" /\ req[t].op = "all") =>
                   (req[t].status = 200 /\ req[t].all = <<>>)
            /\ (Closest(req[t]) /\ FinitePoint(req[t])) =>
                   (req[t].status = 200 /\ req[t].bars = <<>>)

\* The rows whose coordinates are finite, in their order.
GoodRows(rows) == SelectSeq(rows, LAMBDA row : row.latitude.fin /\ row.longitude.fin)

\* C7: on a catalogue with a row that cannot give a finite distance, a
\* closest_bars request with a finite point succeeds, and its bars are the
\* first three of the other rows ranked by distance.
C7_BadRecordSkipped ==
    \A t \in Threads :
        (Closest(req[t]) /\ FinitePoint(req[t]) /\ ~Sound(loaded_df.rows)) =>
            /\ req[t].status = 200
            /\ req[t].bars \in Ranked(GoodRows(loaded_df.rows), req[t].lat, req[t].lon)

\* C8: in a successful closest_bars response, rows at the same distance
\* from the request's point come in load order, and a row left out at the
\* same distance as a row returned comes after it in load order.
C8_StableTieBreak ==
    \A t \in Threads :
        (Closest(req[t]) /\ req[t].status = 200 /\ FinitePoint(req[t])) =>
            /\ \A i, j \in 1..Len(req[t].bars) :
                 (i < j /\ Own(req[t], req[t].bars[i].nom)
                            = Own(req[t], req[t].bars[j].nom))
                    => req[t].bars[i].nom < req[t].bars[j].nom
            /\ \A i \in 1..Len(loaded_df.rows), k \in Returned(req[t]) :
                 (i \notin Returned(req[t]) /\ Own(req[t], i) = Own(req[t], k))
                    => k < i

\* C9: when saves do not overlap, a successful get_participants returns
\* exactly the (name, address) entries of the last save committed to its
\* session, and the committed rows of every session are those of the last
\* save committed to it.
C9_ReadBackLastSave ==
    /\ (reply.op = "get" /\ reply.status = 200)
            => reply.rows = BagOfList(saved[reply.sid])
    /\ \A s \in Sessions : select(participants, s) = BagOfList(saved[s])

\* A read of s1 answered after three saves were received, two of them
\* committed to s1 and one to s2, that returns the two entries of the
\* second save to s1.
C9_Witness ==
    /\ reply.op = "get" /\ reply.status = 200 /\ reply.sid = "s1"
    /\ nreq = 3
    /\ nsaved["s1"] = 2
    /\ nsaved["s2"] = 1
    /\ saved["s2"] # <<>>
    /\ Len(saved["s1"]) = 2
    /\ reply.rows = BagOfList(saved["s1"])

\* C10: in every committed state the rows of a session are the whole list
\* of one save request, or there are none.
C10_AllOrNothing ==
    \A s \in Sessions :
        LET rows == { r \in participants : Matches(r, s) }
        IN  \/ rows = {}
            \/ \E c \in 1..MaxSaves :
                 \A r \in rows : r.created_at = c /\ r.of = Cardinality(rows)

====
